---- MODULE Spec2Model ----
(***************************************************************************)
(* Quiz authoring and the attempt / grading engine of acadex_backend.      *)
(* State: the rows of Quiz, Question, Answer, CourseEnrollment,            *)
(* QuizAttempt and StudentAnswer, the wall clock, the requests in flight   *)
(* between a handler's validation and its write, and the last response     *)
(* with the quiz_questions list it carried; the User, Student and Lecturer *)
(* rows and the last call of the authentication backend.                   *)
(* Time is counted in minutes.                                             *)
(***************************************************************************)
EXTENDS Integers, Sequences, FiniteSets, TLC

VARIABLES now, quizzes, enrollments, accounts, auth, questions, answers,
          attempts, student_answers, pc, last, body

vars == <<now, quizzes, enrollments, accounts, auth, questions, answers,
          attempts, student_answers, pc, last, body>>

\* ---------------------------------------------------------------- bounds
MaxTime == 5
MaxAnswers == 2
MaxPatch == 2
MaxQuizzes == 3

\* ------------------------------------------------------- program constants
GracePeriod == 1

\* ------------------------------------------------------------ input sets
Students == {"s1", "s2"}
Users == Students \cup {"l1"}
Reqs == {"r1", "r2"}
QuizIds == {1, 2}
Texts == {"t0", "t1"}
Absent == "absent"

Min(a, b) == IF a <= b THEN a ELSE b

SetMax(S) == CHOOSE x \in S : \A y \in S : y <= x

SetMin(S) == CHOOSE x \in S : \A y \in S : x <= y

\* the rows with the ids S in the order a queryset without order_by yields
\* them: the order of insertion, which is the order of the ids here
RECURSIVE QueryOrder(_)
QueryOrder(S) ==
    IF S = {} THEN <<>>
    ELSE <<SetMin(S)>> \o QueryOrder(S \ {SetMin(S)})

\* request.user.student_profile: None for a user that is not a student
student_profile(u) == IF u \in Students THEN u ELSE "None"

Idle == [at |-> "idle", student |-> "None", quiz |-> 0, attempt |-> 0]

\* the last exchange: the operation, the attempt it names (0 if none), the
\* status and detail of the response and the score it returns; body is the
\* quiz_questions list of a start_attempt or submit_attempt response, the
\* serializer.errors list of an add_questions response that carries one,
\* and empty for every other response
Response(op, attempt, status, detail, score) ==
    [op |-> op, attempt |-> attempt, status |-> status, detail |-> detail,
     score |-> score]

\* ------------------------------------------------------------ the schema
\* class Mete (sic) on QuizAttempt: Django reads only an inner class named
\* Meta, so unique_together = ('quiz', 'student') is not installed.
QuizAttemptUniqueTogether == FALSE

\* class Meta on StudentAnswer: unique_together = ('attempt', 'question')
StudentAnswerUniqueTogether == TRUE

\* class Meta on CourseEnrollment: unique_together = ('student', 'course')
CourseEnrollmentUniqueTogether == TRUE

\* ------------------------------------------------------------- queries
AttemptExists_Never(q, s) == FALSE

\* QuizAttempt.objects.filter(student=student, quiz=quiz).exists()
AttemptExists(q, s) ==
    \E i \in 1..Len(attempts) : attempts[i].quiz = q /\ attempts[i].student = s

IsEnrolled_Anyone(s) == TRUE

\* CourseEnrollment.objects.filter(student=student, course=quiz.course)
\* .exists(): every quiz is of the one course
IsEnrolled(s) == \E k \in 1..Len(enrollments) : enrollments[k] = s

\* quiz.questions / Question.objects.filter(quiz=quiz)
QuizQuestions(q) == {x \in DOMAIN questions : questions[x].quiz = q}

\* question.answers
QuestionAnswers(x) == {a \in DOMAIN answers : answers[a].question = x}

\* attempt.student_answers
AttemptAnswers(i) == {r \in student_answers : r.attempt = i}

\* The accounts: User rows with their password and is_active flag, Student
\* rows by matric_number and Lecturer rows by staff_id. l2 is a lecturer
\* without a course.
Accounts0 ==
    [users |-> [u \in {"s1", "s2", "l1", "l2"} |->
                  [password |-> "p1", is_active |-> TRUE]],
     students |-> ("m1" :> "s1") @@ ("m2" :> "s2"),
     lecturers |-> ("f1" :> "l1") @@ ("f2" :> "l2")]

\* no call of the authentication backend yet
NoAuth == [username |-> "None", password |-> "None", user |-> "None"]

\* ---------------------------------------------------------------- Init
\* One course of lecturer l1, s1 enrolled and s2 not. Quiz 1 is scheduled
\* and has no questions yet; quiz 2 of the same course opens later and has
\* one question.
Quizzes0 ==
    (1 :> [start |-> 1, end |-> 3, allotted |-> 1, number_of_questions |-> 2])
    @@ (2 :> [start |-> 8, end |-> 9, allotted |-> 1, number_of_questions |-> 1])

Init ==
    /\ now = 0
    /\ quizzes = Quizzes0
    /\ enrollments = <<"s1">>
    /\ accounts = Accounts0
    /\ auth = NoAuth
    /\ questions = (1 :> [quiz |-> 2, text |-> "t0"])
    /\ answers = (1 :> [question |-> 1, text |-> "t0", is_correct |-> TRUE])
    /\ attempts = <<>>
    /\ student_answers = {}
    /\ pc = [r \in Reqs |-> Idle]
    /\ last = Response("none", 0, 0, "", 0)
    /\ body = <<>>

\* ---------------------------------------------------------------- clock
Tick ==
    /\ now < MaxTime
    /\ now' = now + 1
    /\ UNCHANGED <<quizzes, enrollments, accounts, auth, questions, answers, attempts,
                   student_answers, pc, last, body>>

\* -------------------------------------------------------- start_attempt
\* QuizAttemptCreationSerializer.validate
AttemptValidate(q, s) ==
    IF AttemptExists(q, s) THEN "You have already attempted this quiz."
    ELSE IF quizzes[q].start > now THEN "Quiz has not started yet."
    ELSE IF quizzes[q].end < now THEN "Quiz has already ended."
    ELSE "ok"

\* AttemptQuizView.post up to serializer.is_valid: the status and detail of
\* the rejection, or 0 when the request goes on to serializer.save()
StartOutcome(u, q) ==
    IF student_profile(u) = "None"
      THEN [status |-> 403, detail |-> "User is not a student."]
    ELSE IF ~IsEnrolled(student_profile(u))
      THEN [status |-> 400, detail |-> "You are not enrolled in this course."]
    ELSE IF AttemptExists(q, student_profile(u))
      THEN [status |-> 400, detail |-> "You have already attempted this quiz."]
    ELSE IF QuizQuestions(q) = {}
      THEN [status |-> 200, detail |-> "No questions for this quiz yet."]
    ELSE IF AttemptValidate(q, student_profile(u)) # "ok"
      THEN [status |-> 400, detail |-> AttemptValidate(q, student_profile(u))]
    ELSE [status |-> 0, detail |-> "ok"]

StartCheck(r, u, q) ==
    /\ pc[r].at = "idle"
    /\ LET out == StartOutcome(u, q) IN
       IF out.status # 0
         THEN /\ last' = Response("start", 0, out.status, out.detail, 0)
              /\ body' = <<>>
              /\ UNCHANGED pc
         ELSE /\ pc' = [pc EXCEPT ![r] = [Idle EXCEPT !.at = "start_create",
                                            !.student = student_profile(u),
                                            !.quiz = q]]
              /\ UNCHANGED <<last, body>>
    /\ UNCHANGED <<now, quizzes, enrollments, accounts, auth, questions, answers, attempts,
                   student_answers>>

FinalEnd_Uncapped(q, t) == t + quizzes[q].allotted

\* QuizAttemptCreationSerializer.create: the deadline of a new attempt
FinalEnd(q, t) == Min(t + quizzes[q].allotted, quizzes[q].end)

\* QuizAttempt.objects.create(...)
NewAttempt(q, s, t) ==
    [quiz |-> q, student |-> s, score |-> 0, attempt_time |-> t,
     end_time |-> FinalEnd(q, t)]

to_representation_AllFields(a, ans, include_correct) ==
    [id |-> a, text |-> ans[a].text, is_correct |-> ans[a].is_correct]

\* AnswerCreateSerializer.to_representation of answer a of the table ans
to_representation(a, ans, include_correct) ==
    IF include_correct
      THEN [id |-> a, text |-> ans[a].text, is_correct |-> ans[a].is_correct]
      ELSE [id |-> a, text |-> ans[a].text]

\* QuestionCreateSerializer(questions, many=True, context).data for the
\* questions of quiz q in the tables qs and ans
question_data(q, qs, ans, include_correct) ==
    LET xs == QueryOrder({x \in DOMAIN qs : qs[x].quiz = q})
        as(x) == QueryOrder({a \in DOMAIN ans : ans[a].question = x})
    IN [k \in 1..Len(xs) |->
          [id |-> xs[k], text |-> qs[xs[k]].text,
           answers |-> [j \in 1..Len(as(xs[k])) |->
                          to_representation(as(xs[k])[j], ans,
                                            include_correct)]]]

StartCreate(r) ==
    /\ pc[r].at = "start_create"
    /\ IF QuizAttemptUniqueTogether /\ AttemptExists(pc[r].quiz, pc[r].student)
         THEN /\ last' = Response("start", 0, 500, "IntegrityError", 0)
              /\ body' = <<>>
              /\ UNCHANGED attempts
         ELSE /\ attempts' = Append(attempts,
                                    NewAttempt(pc[r].quiz, pc[r].student, now))
              /\ last' = Response("start", Len(attempts) + 1, 201, "created", 0)
              /\ body' = question_data(pc[r].quiz, questions, answers, FALSE)
    /\ pc' = [pc EXCEPT ![r] = Idle]
    /\ UNCHANGED <<now, quizzes, enrollments, accounts, auth, questions, answers,
                   student_answers>>

\* ------------------------------------------------------------ authoring
\* IsCourseInstructor.has_object_permission: the one course is l1's
IsCourseInstructor(u) == u = "l1"

\* A submitted question: its text and one is_correct flag per option
\* (an omitted is_correct reads as None, which counts and is stored as false)
OptionFlags == {<<TRUE, FALSE>>, <<FALSE, TRUE>>, <<TRUE, TRUE>>,
                <<FALSE, FALSE>>}

OptionText(k) == IF k = 1 THEN "t0" ELSE "t1"

QuestionData == [text : {"t0"}, flags : OptionFlags]

QuestionBatches ==
    {<<d>> : d \in QuestionData}
    \cup {<<d, e>> : d \in QuestionData, e \in QuestionData}

\* sum(bool(answer.get('is_correct')) for answer in value)
RECURSIVE CorrectCount(_)
CorrectCount(flags) ==
    IF flags = <<>> THEN 0
    ELSE (IF Head(flags) THEN 1 ELSE 0) + CorrectCount(Tail(flags))

validate_answers_AtLeastOne(flags) == CorrectCount(flags) >= 1

\* QuestionCreateSerializer.validate_answers
validate_answers(flags) == CorrectCount(flags) = 1

NextId(table) == IF DOMAIN table = {} THEN 1 ELSE SetMax(DOMAIN table) + 1

\* QuestionCreateSerializer.create for the k-th question onward of a valid
\* batch: one Question row and its Answer rows each
RECURSIVE CreateQuestions(_, _, _, _)
CreateQuestions(q, batch, qs, as) ==
    IF batch = <<>> THEN [questions |-> qs, answers |-> as]
    ELSE LET d == Head(batch)
             x == NextId(qs)
             a0 == NextId(as)
             qs1 == qs @@ (x :> [quiz |-> q, text |-> d.text])
             as1 == as @@ [a \in a0..(a0 + Len(d.flags) - 1) |->
                             [question |-> x,
                              text |-> OptionText(a - a0 + 1),
                              is_correct |-> d.flags[a - a0 + 1]]]
         IN CreateQuestions(q, Tail(batch), qs1, as1)

QuestionsExist_Never(q) == FALSE

\* Question.objects.filter(quiz=quiz).exists()
QuestionsExist(q) == QuizQuestions(q) # {}

\* serializer.errors of the many=True serializer: one entry per submitted
\* question, empty for a question that is valid
BatchErrors(batch) ==
    [k \in 1..Len(batch) |->
       IF validate_answers(batch[k].flags) THEN ""
       ELSE "Exactly one answer must be marked as correct."]

BatchValid_FirstOnly(batch) == BatchErrors(batch)[1] = ""

\* serializer.is_valid() of the many=True serializer: every question of
\* the batch is validated before any is saved
BatchValid(batch) == \A k \in 1..Len(batch) : BatchErrors(batch)[k] = ""

\* QuestionCreateView.post
AddQuestionsOutcome(u, q, batch) ==
    IF ~IsCourseInstructor(u)
      THEN [status |-> 403, detail |-> "permission denied"]
    ELSE IF QuestionsExist(q)
      THEN [status |-> 400,
            detail |-> "Questions have already been set for this quiz."]
    ELSE IF Len(batch) # quizzes[q].number_of_questions
      THEN [status |-> 400, detail |-> "Expected a different count."]
    ELSE IF ~BatchValid(batch)
      THEN [status |-> 400,
            detail |-> "Exactly one answer must be marked as correct."]
    ELSE [status |-> 201, detail |-> "created"]

AddQuestions(u, q, batch) ==
    /\ LET out == AddQuestionsOutcome(u, q, batch) IN
       /\ last' = Response("add_questions", 0, out.status, out.detail, 0)
       /\ body' = IF out.detail = "Exactly one answer must be marked as correct."
                    THEN BatchErrors(batch) ELSE <<>>
       /\ IF out.status = 201
            THEN LET res == CreateQuestions(q, batch, questions, answers) IN
                 /\ questions' = res.questions
                 /\ answers' = res.answers
            ELSE UNCHANGED <<questions, answers>>
    /\ UNCHANGED <<now, quizzes, enrollments, accounts, auth, attempts, student_answers, pc>>

\* A patch: an optional text and a list of answer items, each an id with an
\* optional text and an optional is_correct
PatchItem(ids, texts, flags) == [id : ids, text : texts, is_correct : flags]

PatchLists(items) ==
    UNION {[1..n -> items] : n \in 0..MaxPatch}

\* answer_update_map = {str(a['id']): a for a in answers_data}: the index of
\* the item that updates answer a (the last item of an id wins), 0 if none
answer_update_map(items, a) ==
    LET ks == {k \in 1..Len(items) : items[k].id = a}
    IN IF ks = {} THEN 0 ELSE SetMax(ks)

\* bool(data['is_correct'])
Bool(v) == v = "true"

MergedCorrect_Stored(items, a) == answers[a].is_correct

\* final_states of QuestionUpdateSerializer.update: is_correct of answer a
\* after the merge
MergedCorrect(items, a) ==
    LET k == answer_update_map(items, a)
    IN IF k = 0 THEN answers[a].is_correct
       ELSE IF items[k].is_correct = Absent THEN answers[a].is_correct
       ELSE Bool(items[k].is_correct)

\* the loop that saves the patched answers
PatchedAnswer(items, a) ==
    LET k == answer_update_map(items, a)
    IN IF k = 0 THEN answers[a]
       ELSE [question |-> answers[a].question,
             text |-> IF items[k].text = Absent THEN answers[a].text
                      ELSE items[k].text,
             is_correct |-> IF items[k].is_correct = Absent
                              THEN answers[a].is_correct
                              ELSE Bool(items[k].is_correct)]

\* QuestionUpdateSerializer.update inside its transaction: the tables as
\* written so far and whether it ran to the end
UpdateRun(x, patch) ==
    LET qs1 == [questions EXCEPT ![x].text =
                   IF patch.text = Absent THEN @ ELSE patch.text]
        own == QuestionAnswers(x)
    IN IF \E k \in 1..Len(patch.answers) : patch.answers[k].id \notin own
         THEN [ok |-> FALSE, status |-> 400,
               detail |-> "Answer does not belong to this question.",
               db |-> [questions |-> qs1, answers |-> answers]]
       ELSE IF Cardinality({a \in own : MergedCorrect(patch.answers, a)}) # 1
         THEN [ok |-> FALSE, status |-> 400,
               detail |-> "Exactly one answer must be marked as correct after update.",
               db |-> [questions |-> qs1, answers |-> answers]]
       ELSE [ok |-> TRUE, status |-> 200, detail |-> "updated",
             db |-> [questions |-> qs1,
                     answers |-> [a \in DOMAIN answers |->
                                    IF a \in own
                                      THEN PatchedAnswer(patch.answers, a)
                                      ELSE answers[a]]]]

Atomic_NoRollback(run, old) == run.db

\* @transaction.atomic: the writes of a run that raised are rolled back
Atomic(run, old) == IF run.ok THEN run.db ELSE old

answer_save_Regrade(rows, ans) ==
    {[r EXCEPT !.is_correct = ans[r.selected_option].is_correct] : r \in rows}

\* answer.save() as seen from the StudentAnswer rows: is_correct is a
\* column of StudentAnswer, written at submission, and saving an Answer
\* writes the Answer row alone
answer_save(rows, ans) == rows

\* QuestionUpdateView.patch
UpdateQuestion(u, q, x, patch) ==
    /\ IF ~IsCourseInstructor(u)
         THEN /\ last' = Response("update_question", 0, 403, "permission denied", 0)
              /\ UNCHANGED <<questions, answers, student_answers>>
       ELSE IF x \notin QuizQuestions(q)
         THEN /\ last' = Response("update_question", 0, 404, "Question not found.", 0)
              /\ UNCHANGED <<questions, answers, student_answers>>
       ELSE LET run == UpdateRun(x, patch)
                res == Atomic(run, [questions |-> questions,
                                    answers |-> answers]) IN
            /\ last' = Response("update_question", 0, run.status, run.detail, 0)
            /\ questions' = res.questions
            /\ answers' = res.answers
            /\ student_answers' = answer_save(student_answers, res.answers)
    /\ body' = <<>>
    /\ UNCHANGED <<now, quizzes, enrollments, accounts, auth, attempts, pc>>

\* ------------------------------------------------------ quiz scheduling
\* the length of a day on the model's clock: datetime.date() of a time
DayLen == 3

Date(t) == t \div DayLen

\* hasattr(user, "lecturer_profile") / user.lecturer_profile: None for a
\* user that is not a lecturer
lecturer_profile(u) == IF u \in {"l1", "l2"} THEN u ELSE "None"

\* course.instructor of the one course c1
CourseInstructor == "l1"

\* QuizSerializer.validate and QuizUpdateSerializer.validate on the bounds
\* they settled on: the message of the ValidationError, "ok" if none
QuizValidate(start, end) ==
    IF start >= end
      THEN "Start date/time must be before end date/time."
    ELSE IF Date(start) < Date(now)
      THEN "Start date must be today or in the future."
    ELSE IF Date(end) < Date(now)
      THEN "End date must be today or in the future."
    ELSE IF Date(start) = Date(now) /\ start <= now
      THEN "Start time must be in the future if set for today."
    ELSE IF Date(end) = Date(now) /\ end <= now
      THEN "End time must be in the future if set for today."
    ELSE "ok"

QuizBounds_PatchedOnly(instance, attrs) ==
    IF "start" \in DOMAIN attrs /\ "end" \in DOMAIN attrs
      THEN [start |-> attrs.start, end |-> attrs.end]
      ELSE [start |-> instance.start, end |-> instance.end]

\* attrs.get(...) or getattr(self.instance, ...): the bound of the request
\* if it carries one, else the stored one
QuizBounds(instance, attrs) ==
    [start |-> IF "start" \in DOMAIN attrs THEN attrs.start ELSE instance.start,
     end |-> IF "end" \in DOMAIN attrs THEN attrs.end ELSE instance.end]

\* serializer.is_valid() of QuizSerializer: the course must exist and
\* validate must pass
QuizSerializerErrors(data) ==
    IF data.course # "c1" THEN "Invalid pk - object does not exist."
    ELSE QuizValidate(data.start, data.end)

\* QuizCreateView.post: the payload is validated first, the caller second
CreateOutcome(u, data) ==
    IF QuizSerializerErrors(data) # "ok"
      THEN Response("create_quiz", 0, 400, QuizSerializerErrors(data), 0)
    ELSE IF lecturer_profile(u) = "None"
      THEN Response("create_quiz", 0, 403,
                    "You do not have permission to create a quiz.", 0)
    ELSE IF CourseInstructor # lecturer_profile(u)
      THEN Response("create_quiz", 0, 403,
                    "You do not have permission to create a quiz for this course.",
                    0)
    ELSE Response("create_quiz", 0, 201, "created", 0)

CreateQuiz(u, data) ==
    /\ Cardinality(DOMAIN quizzes) < MaxQuizzes
    /\ last' = CreateOutcome(u, data)
    /\ quizzes' = IF CreateOutcome(u, data).status = 201
                    THEN quizzes @@
                         (Cardinality(DOMAIN quizzes) + 1 :>
                            [start |-> data.start, end |-> data.end,
                             allotted |-> data.allotted,
                             number_of_questions |-> data.number_of_questions])
                    ELSE quizzes
    /\ body' = <<>>
    /\ UNCHANGED <<now, enrollments, accounts, auth, questions, answers,
                   attempts, student_answers, pc>>

\* QuizDetailView.patch with QuizUpdateSerializer(quiz, data, partial=True)
UpdateOutcome(u, q, attrs) ==
    IF q \notin DOMAIN quizzes
      THEN Response("update_quiz", 0, 404, "Quiz not found.", 0)
    ELSE IF ~IsCourseInstructor(u)
      THEN Response("update_quiz", 0, 403, "permission denied", 0)
    ELSE LET b == QuizBounds(quizzes[q], attrs)
             msg == QuizValidate(b.start, b.end)
         IN IF msg # "ok"
              THEN Response("update_quiz", 0, 400, msg, 0)
              ELSE Response("update_quiz", 0, 200,
                            "Quiz updated successfully.", 0)

\* serializer.save() of a partial update: the fields of the request
UpdateQuiz(u, q, attrs) ==
    /\ last' = UpdateOutcome(u, q, attrs)
    /\ quizzes' = IF UpdateOutcome(u, q, attrs).status = 200
                    THEN [quizzes EXCEPT ![q] =
                            [f \in DOMAIN quizzes[q] |->
                               IF f \in DOMAIN attrs THEN attrs[f]
                               ELSE quizzes[q][f]]]
                    ELSE quizzes
    /\ body' = <<>>
    /\ UNCHANGED <<now, enrollments, accounts, auth, questions, answers,
                   attempts, student_answers, pc>>

\* ------------------------------------------------------- submit_attempt
SubmissionValidate_NoGrace(i) ==
    IF now > attempts[i].end_time THEN "Submission time has passed."
    ELSE IF AttemptAnswers(i) # {} THEN "You have already submitted this quiz."
    ELSE "ok"

\* StudentQuizSubmissionSerializer.validate
SubmissionValidate(i) ==
    IF now > attempts[i].end_time + GracePeriod
      THEN "Submission time has passed."
    ELSE IF AttemptAnswers(i) # {} THEN "You have already submitted this quiz."
    ELSE "ok"

IsOwner_AnyStudent(u, i) == TRUE

\* request.user.student_profile != attempt.student
IsOwner(u, i) == student_profile(u) = attempts[i].student

\* SubmitQuizView.post up to serializer.is_valid
SubmitOutcome(u, i) ==
    IF student_profile(u) = "None"
      THEN [status |-> 403, detail |-> "permission denied"]
    ELSE IF i \notin 1..Len(attempts)
      THEN [status |-> 404, detail |-> "Not found."]
    ELSE IF ~IsOwner(u, i)
      THEN [status |-> 403,
            detail |-> "You are not authorized to submit this quiz."]
    ELSE IF SubmissionValidate(i) # "ok"
      THEN [status |-> 400, detail |-> SubmissionValidate(i)]
    ELSE [status |-> 0, detail |-> "ok"]

SubmitValidate(r, u, i) ==
    /\ pc[r].at = "idle"
    /\ LET out == SubmitOutcome(u, i) IN
       IF out.status # 0
         THEN /\ last' = Response("submit", i, out.status, out.detail, 0)
              /\ body' = <<>>
              /\ UNCHANGED pc
         ELSE /\ pc' = [pc EXCEPT ![r] = [Idle EXCEPT !.at = "submit_create",
                                            !.student = student_profile(u),
                                            !.attempt = i]]
              /\ UNCHANGED <<last, body>>
    /\ UNCHANGED <<now, quizzes, enrollments, accounts, auth, questions, answers, attempts,
                   student_answers>>

Tally_EveryAnswer(count, is_correct) == count + 1

\* if is_correct: correct_count += 1
Tally(count, is_correct) == IF is_correct THEN count + 1 ELSE count

\* The loop of StudentQuizSubmissionSerializer.create from item k on: rows
\* are the StudentAnswer rows as written so far, count is correct_count
RECURSIVE SubmitLoop(_, _, _, _, _)
SubmitLoop(i, items, k, rows, count) ==
    IF k > Len(items)
      THEN [ok |-> TRUE, status |-> 200, detail |-> "submitted",
            rows |-> rows, count |-> count]
    ELSE LET x == items[k][1]
             a == items[k][2]
         IN IF x \notin QuizQuestions(attempts[i].quiz)
              THEN [ok |-> FALSE, status |-> 400,
                    detail |-> "Invalid question ID for this quiz.",
                    rows |-> rows, count |-> count]
            ELSE IF a \notin QuestionAnswers(x)
              THEN [ok |-> FALSE, status |-> 400,
                    detail |-> "Invalid answer ID for question",
                    rows |-> rows, count |-> count]
            ELSE IF /\ StudentAnswerUniqueTogether
                    /\ \E row \in rows : row.attempt = i /\ row.question = x
              THEN [ok |-> FALSE, status |-> 500, detail |-> "IntegrityError",
                    rows |-> rows, count |-> count]
            ELSE SubmitLoop(i, items, k + 1,
                            rows \cup {[attempt |-> i, question |-> x,
                                        selected_option |-> a,
                                        is_correct |-> answers[a].is_correct]},
                            Tally(count, answers[a].is_correct))

\* StudentQuizSubmissionSerializer.create inside its transaction
SubmitRun(i, items) ==
    LET loop == SubmitLoop(i, items, 1, student_answers, 0)
    IN [ok |-> loop.ok, status |-> loop.status, detail |-> loop.detail,
        count |-> loop.count,
        db |-> [student_answers |-> loop.rows,
                attempts |-> IF loop.ok
                               THEN [attempts EXCEPT ![i].score = loop.count]
                               ELSE attempts]]

\* question.answers.filter(is_correct=True).first(): 0 for None
CorrectOption(x) ==
    LET cs == {a \in QuestionAnswers(x) : answers[a].is_correct}
    IN IF cs = {} THEN 0 ELSE SetMin(cs)

response_item_WithCorrectText(x, a) ==
    [question_id |-> x, question_text |-> questions[x].text,
     selected_option_text |-> answers[a].text,
     is_correct |-> answers[a].is_correct,
     correct_option_text |-> answers[CorrectOption(x)].text]

\* response_item of an answered question x with the selected option a
response_item(x, a) ==
    IF answers[a].is_correct \/ CorrectOption(x) = 0
      THEN [question_id |-> x, question_text |-> questions[x].text,
            selected_option_text |-> answers[a].text,
            is_correct |-> answers[a].is_correct]
      ELSE [question_id |-> x, question_text |-> questions[x].text,
            selected_option_text |-> answers[a].text,
            is_correct |-> answers[a].is_correct,
            correct_option_text |-> answers[CorrectOption(x)].text]

\* the item appended for a question that is not in answered_question_ids
unanswered_item(x) ==
    [question_id |-> x, question_text |-> questions[x].text,
     selected_option_text |-> "None", is_correct |-> FALSE,
     correct_option_text |-> IF CorrectOption(x) = 0 THEN "None"
                             ELSE answers[CorrectOption(x)].text]

unanswered_Dropped(i, items) == <<>>

\* "Handle unanswered questions": the items of the questions of the quiz
\* that the list does not name
unanswered(i, items) ==
    LET xs == QueryOrder(QuizQuestions(attempts[i].quiz)
                         \ {items[k][1] : k \in 1..Len(items)})
    IN [k \in 1..Len(xs) |-> unanswered_item(xs[k])]

\* response_data of a create that ran to the end
response_data(i, items) ==
    [k \in 1..Len(items) |-> response_item(items[k][1], items[k][2])]
    \o unanswered(i, items)

\* items is validated_data['answers']: the request's answer list, which no
\* step before create reads
SubmitCreate(r, items) ==
    /\ pc[r].at = "submit_create"
    /\ LET run == SubmitRun(pc[r].attempt, items)
           res == Atomic(run, [student_answers |-> student_answers,
                               attempts |-> attempts]) IN
       /\ last' = Response("submit", pc[r].attempt, run.status, run.detail,
                           IF run.ok THEN run.count ELSE 0)
       /\ body' = IF run.ok THEN response_data(pc[r].attempt, items) ELSE <<>>
       /\ student_answers' = res.student_answers
       /\ attempts' = res.attempts
    /\ pc' = [pc EXCEPT ![r] = Idle]
    /\ UNCHANGED <<now, quizzes, enrollments, accounts, auth, questions, answers>>

\* ---------------------------------------------------- roster and results
\* what a QuizAttempt instance answers to: the fields of the model and the
\* reverse relation of StudentAnswer.attempt
QuizAttemptAttrs ==
    {"attempt_id", "quiz", "student", "score", "attempt_time", "end_time",
     "student_answers"}

\* QuizAttempt.objects.filter(quiz=quiz), in insertion order
QuizAttempts(q) == {i \in 1..Len(attempts) : attempts[i].quiz = q}

\* the entry of an attempt in the roster; attempt.submitted is read from
\* the instance
roster_item(i) ==
    [student |-> attempts[i].student, score |-> attempts[i].score,
     attempt_time |-> attempts[i].attempt_time]

\* QuizAttemptListView.get
RosterOutcome(u, q) ==
    IF q \notin DOMAIN quizzes
      THEN Response("roster", 0, 404, "Not found.", 0)
    ELSE IF ~IsCourseInstructor(u)
      THEN Response("roster", 0, 403, "permission denied", 0)
    ELSE IF QuizAttempts(q) = {}
      THEN Response("roster", 0, 404,
                    "No students has attempted this quiz yet.", 0)
    ELSE IF "submitted" \notin QuizAttemptAttrs
      THEN Response("roster", 0, 500, "AttributeError", 0)
    ELSE Response("roster", 0, 200, "students", 0)

Roster(u, q) ==
    /\ last' = RosterOutcome(u, q)
    /\ body' = IF RosterOutcome(u, q).status = 200
                 THEN [k \in 1..Cardinality(QuizAttempts(q)) |->
                         roster_item(QueryOrder(QuizAttempts(q))[k])]
                 ELSE <<>>
    /\ UNCHANGED <<now, quizzes, enrollments, accounts, auth, questions,
                   answers, attempts, student_answers, pc>>

\* StudentQuizResultView.get up to the test of attempt.submitted; the
\* attempt is fetched with get_object_or_404, which raises
\* MultipleObjectsReturned on more than one row
ResultOutcome(u, q, s) ==
    LET A == {i \in QuizAttempts(q) : attempts[i].student = s}
    IN IF q \notin DOMAIN quizzes
         THEN Response("result", 0, 404, "Not found.", 0)
       ELSE IF ~IsCourseInstructor(u)
         THEN Response("result", 0, 403, "permission denied", 0)
       ELSE IF A = {}
         THEN Response("result", 0, 404, "Not found.", 0)
       ELSE IF Cardinality(A) > 1
         THEN Response("result", 0, 500, "MultipleObjectsReturned", 0)
       ELSE IF "submitted" \notin QuizAttemptAttrs
         THEN Response("result", SetMin(A), 500, "AttributeError", 0)
       ELSE Response("result", SetMin(A), 200, "result",
                     attempts[SetMin(A)].score)

StudentResult(u, q, s) ==
    /\ last' = ResultOutcome(u, q, s)
    /\ body' = <<>>
    /\ UNCHANGED <<now, quizzes, enrollments, accounts, auth, questions,
                   answers, attempts, student_answers, pc>>

\* ----------------------------------------------------------- enrollment
\* CourseEnrollmentView.post up to serializer.is_valid(): the serializer's
\* __init__ refuses a user without a student profile, and the
\* UniqueTogetherValidator that ModelSerializer derives from the model's
\* unique_together and CourseEnrollmentSerializer.validate both refuse a
\* pair that has a row
EnrollOutcome(u) ==
    IF student_profile(u) = "None"
      THEN Response("enroll", 0, 400, "Authenticated user is not a student.", 0)
    ELSE IF IsEnrolled(student_profile(u))
      THEN Response("enroll", 0, 400,
                    "This student is already enrolled in this course.", 0)
    ELSE Response("enroll", 0, 0, "valid", 0)

EnrollValidate(r, u) ==
    /\ IF EnrollOutcome(u).status = 0
         THEN /\ pc' = [pc EXCEPT ![r] = [at |-> "enroll_create",
                                          student |-> student_profile(u),
                                          quiz |-> 0, attempt |-> 0]]
              /\ UNCHANGED <<last, body>>
         ELSE /\ last' = EnrollOutcome(u)
              /\ body' = <<>>
              /\ UNCHANGED pc
    /\ UNCHANGED <<now, quizzes, enrollments, accounts, auth, questions,
                   answers, attempts, student_answers>>

\* serializer.save(): the INSERT; the database raises IntegrityError on a
\* second row of the pair, which the view does not catch
EnrollCreate(r) ==
    /\ pc[r].at = "enroll_create"
    /\ IF CourseEnrollmentUniqueTogether /\ IsEnrolled(pc[r].student)
         THEN /\ last' = Response("enroll", 0, 500, "IntegrityError", 0)
              /\ UNCHANGED enrollments
         ELSE /\ last' = Response("enroll", 0, 201, "created", 0)
              /\ enrollments' = Append(enrollments, pc[r].student)
    /\ body' = <<>>
    /\ pc' = [pc EXCEPT ![r] = Idle]
    /\ UNCHANGED <<now, quizzes, accounts, auth, questions, answers,
                   attempts, student_answers>>

\* ------------------------------------------------------- authentication
\* user.check_password(password) on the accounts acc
check_password(acc, u, password) == acc.users[u].password = password

authenticate_LecturerFirst(acc, username, password) ==
    IF username \in {"None", ""} \/ password \in {"None", ""} THEN "None"
    ELSE IF /\ username \in DOMAIN acc.lecturers
            /\ check_password(acc, acc.lecturers[username], password)
      THEN acc.lecturers[username]
    ELSE IF /\ username \in DOMAIN acc.students
            /\ check_password(acc, acc.students[username], password)
      THEN acc.students[username]
    ELSE "None"

\* AcadexAuthBackend.authenticate: the student of that matric number if the
\* password is theirs, else the lecturer of that staff id if the password
\* is theirs, else None
authenticate(acc, username, password) ==
    IF username \in {"None", ""} \/ password \in {"None", ""} THEN "None"
    ELSE IF /\ username \in DOMAIN acc.students
            /\ check_password(acc, acc.students[username], password)
      THEN acc.students[username]
    ELSE IF /\ username \in DOMAIN acc.lecturers
            /\ check_password(acc, acc.lecturers[username], password)
      THEN acc.lecturers[username]
    ELSE "None"

\* a call of the backend, as LoginView.post makes it
Authenticate(username, password) ==
    /\ auth' = [username |-> username, password |-> password,
                user |-> authenticate(accounts, username, password)]
    /\ UNCHANGED <<now, quizzes, enrollments, accounts, questions, answers,
                   attempts, student_answers, pc, last, body>>

\* ----------------------------------------------------------- the inputs
QuestionIds == 1..3
AnswerIds == 1..5

EmptyPatch == [text |-> Absent, answers |-> <<>>]

\* patches tried on question x while attempts run: make one answer the
\* correct one with or without unmarking the other, and a patch naming the
\* answer of quiz 2's question
EnginePatches(x) ==
    [text : {Absent},
     answers : {<<[id |-> a, text |-> Absent, is_correct |-> "true"]>> :
                  a \in QuestionAnswers(x) \cup {1}}
               \cup {<<[id |-> ab[1], text |-> Absent, is_correct |-> "true"],
                       [id |-> ab[2], text |-> Absent, is_correct |-> "false"]>> :
                       ab \in {c \in QuestionAnswers(x) \X QuestionAnswers(x) :
                                 c[1] # c[2]}}]

\* patches tried on question x by the authoring runs: up to MaxPatch items
\* that set is_correct or the text of one of its answers or name the answer
\* of quiz 2's question, and a new question text with at most one item
AuthoringItems(x) ==
    PatchItem(QuestionAnswers(x), {Absent}, {"true", "false"})
    \cup PatchItem(QuestionAnswers(x), {"t1"}, {Absent})
    \cup PatchItem({1} \ QuestionAnswers(x), {Absent}, {Absent})

AuthoringPatches(x) ==
    [text : {Absent}, answers : PatchLists(AuthoringItems(x))]
    \cup [text : {"t1"},
          answers : {<<>>} \cup {<<d>> : d \in AuthoringItems(x)}]

\* (question_id, selected_option_id) items: the correct and the incorrect
\* option of question 2, the correct option of question 3, an option of
\* another question, and the question of quiz 2
SubmitItems == {<<2, 2>>, <<2, 3>>, <<3, 5>>, <<2, 4>>, <<1, 1>>}

Submissions == UNION {[1..n -> SubmitItems] : n \in 0..MaxAnswers}

\* a request takes the first free slot
FreeSlot(r) == pc[r].at = "idle" /\ (r = "r2" => pc["r1"].at # "idle")

\* the steps of the attempt engine with the requests of slots R in flight,
\* sent by the users U
Engine(R, U) ==
    \/ \E r \in R, u \in U, q \in QuizIds :
          FreeSlot(r) /\ StartCheck(r, u, q)
    \/ \E r \in R : StartCreate(r)
    \/ \E r \in R, u \in U, i \in 1..Len(attempts) :
          FreeSlot(r) /\ SubmitValidate(r, u, i)
    \/ \E r \in R, items \in Submissions : SubmitCreate(r, items)

\* the patches tried on question x: the larger set in the authoring runs
Patches(rich, x) == IF rich THEN AuthoringPatches(x) ELSE EnginePatches(x)

Authoring(rich) ==
    \/ \E u \in Users, q \in QuizIds :
          \E batch \in (IF IsCourseInstructor(u) /\ QuizQuestions(q) = {}
                          THEN QuestionBatches
                          ELSE {<<[text |-> "t0", flags |-> <<TRUE, FALSE>>]>>}) :
             AddQuestions(u, q, batch)
    \/ \E u \in Users, q \in QuizIds, x \in QuestionIds :
          \E patch \in (IF IsCourseInstructor(u) /\ x \in QuizQuestions(q)
                          THEN Patches(rich, x) ELSE {EmptyPatch}) :
             UpdateQuestion(u, q, x, patch)

\* requests served one at a time
Next == Tick \/ Engine({"r1"}, Users) \/ Authoring(FALSE)

Spec == Init /\ [][Next]_vars

\* Two requests in flight at once, on the quiz as populated by
\* add_questions with the first option of question 2 and the second option
\* of question 3 correct.
InitRace ==
    /\ now = 0
    /\ quizzes = Quizzes0
    /\ enrollments = <<"s1">>
    /\ accounts = Accounts0
    /\ auth = NoAuth
    /\ questions = (1 :> [quiz |-> 2, text |-> "t0"])
                   @@ (2 :> [quiz |-> 1, text |-> "t0"])
                   @@ (3 :> [quiz |-> 1, text |-> "t0"])
    /\ answers = [a \in 1..5 |->
                    [question |-> IF a = 1 THEN 1 ELSE IF a < 4 THEN 2 ELSE 3,
                     text |-> IF a \in {1, 2, 4} THEN "t0" ELSE "t1",
                     is_correct |-> a \in {1, 2, 5}]]
    /\ attempts = <<>>
    /\ student_answers = {}
    /\ pc = [r \in Reqs |-> Idle]
    /\ last = Response("add_questions", 0, 201, "created", 0)
    /\ body = <<>>

NextRace == Tick \/ Engine(Reqs, {"s1"})

SpecRace == InitRace /\ [][NextRace]_vars

\* Question authoring alone, with the larger set of patches.
NextAuthoring == Authoring(TRUE)

SpecAuthoring == Init /\ [][NextAuthoring]_vars

\* Quiz scheduling alone: quizzes created and patched by every kind of
\* caller while the clock runs.
Callers == Users \cup {"l2"}

QuizTimes == {1, 2, 4}

QuizData ==
    [course : {"c1", "c9"}, start : QuizTimes, end : QuizTimes,
     allotted : {1}, number_of_questions : {1}]

\* the requests that carry the fields D of F, with values of T
QuizAttrs(F, T) == UNION {[D -> T] : D \in SUBSET F}

NextQuiz ==
    \/ Tick
    \/ \E u \in Callers, data \in QuizData : CreateQuiz(u, data)
    \/ \E u \in Callers, q \in 1..MaxQuizzes :
          \E attrs \in QuizAttrs({"start", "end"}, QuizTimes) :
             UpdateQuiz(u, q, attrs)

SpecQuiz == Init /\ [][NextQuiz]_vars

\* The attempts of s1 served one at a time on the populated quiz, and the
\* instructor's and others' reads of the roster and of a student's result.
NextViews ==
    \/ Tick
    \/ Engine({"r1"}, {"s1"})
    \/ \E u \in Users, q \in QuizIds \cup {3} : Roster(u, q)
    \/ \E u \in Users, q \in QuizIds \cup {3}, s \in Students :
          StudentResult(u, q, s)

SpecViews == InitRace /\ [][NextViews]_vars

\* The authentication backend on every table of accounts drawn from: a
\* student s1 with matric number m1 and a lecturer l1 whose staff id is f1
\* or the same string m1, each with one of two passwords and active or not.
Passwords == {"p1", "p2"}

AccountTables ==
    {[users |-> [u \in {"s1", "l1"} |->
                   [password |-> pw[u], is_active |-> act[u]]],
      students |-> ("m1" :> "s1"),
      lecturers |-> (f :> "l1")] :
        pw \in [{"s1", "l1"} -> Passwords],
        act \in [{"s1", "l1"} -> BOOLEAN],
        f \in {"f1", "m1"}}

Usernames == {"None", "", "m1", "f1", "x1"}

InitAuth ==
    /\ now = 0
    /\ quizzes = Quizzes0
    /\ enrollments = <<"s1">>
    /\ accounts \in AccountTables
    /\ auth = NoAuth
    /\ questions = (1 :> [quiz |-> 2, text |-> "t0"])
    /\ answers = (1 :> [question |-> 1, text |-> "t0", is_correct |-> TRUE])
    /\ attempts = <<>>
    /\ student_answers = {}
    /\ pc = [r \in Reqs |-> Idle]
    /\ last = Response("none", 0, 0, "", 0)
    /\ body = <<>>

NextAuth ==
    \E username \in Usernames, password \in Passwords \cup {"None", ""} :
       Authenticate(username, password)

SpecAuth == InitAuth /\ [][NextAuth]_vars

\* Enrollment with two requests in flight at once, nobody enrolled yet.
InitEnroll ==
    /\ now = 0
    /\ quizzes = Quizzes0
    /\ enrollments = <<>>
    /\ accounts = Accounts0
    /\ auth = NoAuth
    /\ questions = (1 :> [quiz |-> 2, text |-> "t0"])
    /\ answers = (1 :> [question |-> 1, text |-> "t0", is_correct |-> TRUE])
    /\ attempts = <<>>
    /\ student_answers = {}
    /\ pc = [r \in Reqs |-> Idle]
    /\ last = Response("none", 0, 0, "", 0)
    /\ body = <<>>

NextEnroll ==
    \/ Tick
    \/ \E r \in Reqs, u \in Users : FreeSlot(r) /\ EnrollValidate(r, u)
    \/ \E r \in Reqs : EnrollCreate(r)

SpecEnroll == InitEnroll /\ [][NextEnroll]_vars

\* Quiz 1 patched by its instructor before, between and after its
\* questions are added and an attempt of s1 is started.
SchedulePatches ==
    QuizAttrs({"start", "end"}, {2, 3, 4})
    \cup {[allotted |-> 3], [end |-> 5, allotted |-> 3],
          [number_of_questions |-> 1]}

ScheduleBatches ==
    {<<[text |-> "t0", flags |-> <<TRUE, FALSE>>]>>,
     <<[text |-> "t0", flags |-> <<TRUE, FALSE>>],
       [text |-> "t0", flags |-> <<FALSE, TRUE>>]>>}

NextSchedule ==
    \/ Tick
    \/ \E batch \in ScheduleBatches : AddQuestions("l1", 1, batch)
    \/ \E attrs \in SchedulePatches : UpdateQuiz("l1", 1, attrs)
    \/ FreeSlot("r1") /\ StartCheck("r1", "s1", 1)
    \/ StartCreate("r1")

SpecSchedule == Init /\ [][NextSchedule]_vars

\* ------------------------------------------------------------ properties
\* the QuizAttempt rows of a (quiz, student) pair
RowsOf(q, s) ==
    {i \in 1..Len(attempts) : attempts[i].quiz = q /\ attempts[i].student = s}

RowsOfNext(q, s) ==
    {i \in 1..Len(attempts') : attempts'[i].quiz = q /\ attempts'[i].student = s}

\* the students that have a CourseEnrollment row of the course
EnrolledStudents == {enrollments[k] : k \in 1..Len(enrollments)}

AlreadyAttempted ==
    Response("start", 0, 400, "You have already attempted this quiz.", 0)

\* C1: with requests served one at a time, the start_attempt that creates
\* an attempt leaves one row for its (quiz, student) pair, and a
\* start_attempt of an enrolled student for a pair that has a row is
\* answered 400 'already attempted' and leaves every attempt row as it was.
C1_SecondStartRejected ==
    [][\A u \in Users, q \in QuizIds :
         /\ (/\ StartCheck("r1", u, q)
             /\ student_profile(u) \in EnrolledStudents
             /\ RowsOf(q, student_profile(u)) # {})
            => /\ last' = AlreadyAttempted
               /\ attempts' = attempts
               /\ pc'["r1"].at = "idle"
         /\ (/\ StartCreate("r1")
             /\ pc["r1"].quiz = q
             /\ pc["r1"].student = student_profile(u))
            => Cardinality(RowsOfNext(q, student_profile(u))) = 1]_vars

\* a second start_attempt was rejected and the pair has its one row
C1_Witness ==
    /\ last = AlreadyAttempted
    /\ Cardinality(RowsOf(1, "s1")) = 1
    /\ attempts[1].score = 0

\* C2: in every reachable state there is at most one QuizAttempt row per
\* (quiz, student) pair, also when two start_attempt requests run
\* concurrently.
C2_OneAttemptPerPair ==
    \A q \in QuizIds, s \in Students : Cardinality(RowsOf(q, s)) <= 1

\* C3: with requests served one at a time, a submit_attempt by the owner
\* within the deadline that directly follows a successful submit_attempt of
\* the same attempt is answered 'already submitted' and leaves the
\* StudentAnswer rows as they were.
C3_SecondSubmitRejected ==
    [][\A u \in Users, i \in 1..Len(attempts) :
         (/\ SubmitValidate("r1", u, i)
          /\ last.op = "submit" /\ last.attempt = i /\ last.status = 200
          /\ student_profile(u) = attempts[i].student
          /\ now <= attempts[i].end_time + 1)
         => /\ last' = Response("submit", i, 400,
                                "You have already submitted this quiz.", 0)
            /\ pc'["r1"].at = "idle"
            /\ student_answers' = student_answers]_vars

\* C4: a submit_attempt that reaches its write after another request has
\* recorded answers for the same attempt is answered with the 'already
\* submitted' error and leaves the StudentAnswer rows and the score as the
\* other request wrote them.
C4_RacingSubmitRejected ==
    [][\A r \in Reqs, items \in Submissions :
         (SubmitCreate(r, items) /\ AttemptAnswers(pc[r].attempt) # {})
         => /\ last' = Response("submit", pc[r].attempt, 400,
                                "You have already submitted this quiz.", 0)
            /\ student_answers' = student_answers
            /\ attempts' = attempts]_vars

AttemptAnswersNext(i) == {r \in student_answers' : r.attempt = i}

\* C5: SUBMITTED is reached by every successful submit_attempt and is
\* terminal: an attempt whose submit_attempt has just succeeded has
\* StudentAnswer rows, and no step changes the score or the StudentAnswer
\* rows of an attempt that has rows.
C5_SubmittedIsTerminal ==
    [][\A i \in 1..Len(attempts) :
         /\ (last'.op = "submit" /\ last'.attempt = i /\ last'.status = 200)
            => AttemptAnswersNext(i) # {}
         /\ (AttemptAnswers(i) # {})
            => /\ AttemptAnswersNext(i) = AttemptAnswers(i)
               /\ attempts'[i].score = attempts[i].score]_vars

\* C6: the attempt a start_attempt creates at time now has attempt_time =
\* now and end_time = now + allotted_time when that is earlier than the
\* quiz end, and the quiz end otherwise.
C6_EndTimeIsCappedDeadline ==
    [][\A r \in Reqs :
         (StartCreate(r) /\ Len(attempts') = Len(attempts) + 1)
         => LET a == attempts'[Len(attempts')]
                qz == quizzes[pc[r].quiz]
            IN /\ a.quiz = pc[r].quiz /\ a.student = pc[r].student
               /\ a.attempt_time = now
               /\ (now + qz.allotted < qz.end
                     => a.end_time = now + qz.allotted)
               /\ (now + qz.allotted >= qz.end => a.end_time = qz.end)]_vars

\* an attempt started so late that its deadline is the end of the quiz
C6_Witness ==
    \E i \in 1..Len(attempts) :
       /\ attempts[i].end_time = quizzes[attempts[i].quiz].end
       /\ attempts[i].attempt_time + quizzes[attempts[i].quiz].allotted
            > quizzes[attempts[i].quiz].end

TimePassed(i) == Response("submit", i, 400, "Submission time has passed.", 0)

\* C7: a submit_attempt of the owner is answered 'Submission time has
\* passed' exactly when now > attempt.end_time + 1 minute, and then no
\* StudentAnswer row is created and no score changes.
C7_LateSubmissionRejected ==
    [][\A u \in Users, i \in 1..Len(attempts) :
         (SubmitValidate("r1", u, i)
          /\ student_profile(u) = attempts[i].student)
         => /\ (now > attempts[i].end_time + 1)
                 => /\ last' = TimePassed(i)
                    /\ pc'["r1"].at = "idle"
                    /\ student_answers' = student_answers
                    /\ attempts' = attempts
            /\ (now <= attempts[i].end_time + 1) => last' # TimePassed(i)]_vars

\* a submission two minutes after the deadline was rejected
C7_Witness ==
    \E i \in 1..Len(attempts) :
       /\ last = TimePassed(i)
       /\ now = attempts[i].end_time + 2
       /\ AttemptAnswers(i) = {}

\* the k-th item names a question of another quiz or an option of another
\* question
InvalidItem(i, items, k) ==
    \/ items[k][1] \notin DOMAIN questions
    \/ questions[items[k][1]].quiz # attempts[i].quiz
    \/ items[k][2] \notin DOMAIN answers
    \/ answers[items[k][2]].question # items[k][1]

\* the step left every StudentAnswer row and every score as it was and did
\* not answer 200
FailedAsAWhole ==
    /\ last'.status # 200
    /\ student_answers' = student_answers
    /\ attempts' = attempts

\* C8: a submit_attempt whose list has an invalid item fails as a whole: no
\* StudentAnswer row of the request remains and no score changes. Every
\* step of a pending submission either failed as a whole or is the write
\* step of no list that has an invalid item.
C8_SubmissionAllOrNothing ==
    [][pc["r1"].at = "submit_create"
       => \/ FailedAsAWhole
          \/ \A items \in Submissions :
               SubmitCreate("r1", items)
               => \A k \in 1..Len(items) :
                     ~InvalidItem(pc["r1"].attempt, items, k)]_vars

\* a submission was rejected for an invalid option and left no row
C8_Witness ==
    /\ last.op = "submit"
    /\ last.status = 400
    /\ last.detail = "Invalid answer ID for question"
    /\ AttemptAnswers(last.attempt) = {}
    /\ attempts[last.attempt].score = 0

\* the submitted items whose selected option is correct
CorrectItems(items) ==
    {k \in 1..Len(items) : answers[items[k][2]].is_correct}

\* C9: after a successful submit_attempt the returned score and the stored
\* score both are the number of submitted answers whose selected option is
\* correct.
C9_ScoreCountsCorrectAnswers ==
    [][(pc["r1"].at = "submit_create" /\ last'.status = 200)
       => \A items \in Submissions :
            SubmitCreate("r1", items)
            => /\ last'.score = Cardinality(CorrectItems(items))
               /\ attempts'[pc["r1"].attempt].score
                    = Cardinality(CorrectItems(items))]_vars

\* a submission of two answers, one of them correct, scored 1
C9_Witness ==
    /\ last.op = "submit" /\ last.status = 200 /\ last.score = 1
    /\ Cardinality(AttemptAnswers(last.attempt)) = 2
    /\ attempts[last.attempt].score = 1

NotAStudent == Response("start", 0, 403, "User is not a student.", 0)

NotEnrolled ==
    Response("start", 0, 400, "You are not enrolled in this course.", 0)

\* C11: a start_attempt of a requester without student profile is answered
\* 403, one of a student without CourseEnrollment for the course is
\* answered 400, and neither creates a QuizAttempt row: the request ends
\* there with the rows as they were.
C11_NonStudentAndUnenrolledRejected ==
    [][\A u \in Users, q \in QuizIds :
         StartCheck("r1", u, q)
         => /\ (student_profile(u) = "None")
               => /\ last' = NotAStudent
                  /\ pc'["r1"].at = "idle"
                  /\ attempts' = attempts
            /\ (student_profile(u) # "None"
                /\ student_profile(u) \notin EnrolledStudents)
               => /\ last' = NotEnrolled
                  /\ pc'["r1"].at = "idle"
                  /\ attempts' = attempts]_vars

\* the unenrolled student was turned away from a quiz that is open, has
\* questions and has been attempted by the enrolled student only
C11_Witness ==
    /\ last = NotEnrolled
    /\ Len(attempts) = 1
    /\ attempts[1].student = "s1"
    /\ quizzes[1].start <= now /\ now <= quizzes[1].end

\* C12: a start_attempt with now before the quiz's start or after its end
\* is rejected and creates no row, and every QuizAttempt row has its
\* attempt_time inside the window of its quiz.
C12_AttemptOnlyInsideWindow ==
    [][/\ \A u \in Users, q \in QuizIds :
            (/\ StartCheck("r1", u, q)
             /\ (now < quizzes[q].start \/ now > quizzes[q].end))
            => /\ last'.op = "start" /\ last'.status # 201
               /\ pc'["r1"].at = "idle"
               /\ attempts' = attempts
       /\ \A i \in 1..Len(attempts') :
            /\ quizzes[attempts'[i].quiz].start <= attempts'[i].attempt_time
            /\ attempts'[i].attempt_time <= quizzes[attempts'[i].quiz].end]_vars

\* C13: a start_attempt on a quiz without questions is answered with an
\* error status and creates no QuizAttempt row.
C13_NoQuestionsIsAnError ==
    [][\A u \in Users, q \in QuizIds :
         (StartCheck("r1", u, q) /\ QuizQuestions(q) = {})
         => /\ last'.op = "start" /\ last'.status >= 400
            /\ pc'["r1"].at = "idle"
            /\ attempts' = attempts]_vars

\* the Answer table with the is_correct flags f in place of the stored ones
WithFlags(f) ==
    [a \in DOMAIN answers |-> [answers[a] EXCEPT !.is_correct = f[a]]]

NotAuthorized(i) ==
    Response("submit", i, 403, "You are not authorized to submit this quiz.", 0)

\* C15: a submit_attempt of a student who is not the attempt's student is
\* answered 403 at any time, and the request ends there: the StudentAnswer
\* rows and the attempts with their scores are unchanged and no write step
\* follows, so no answer list is read.
C15_ForeignSubmitRejected ==
    [][\A u \in Students, i \in 1..Len(attempts) :
         (SubmitValidate("r1", u, i) /\ u # attempts[i].student)
         => /\ last' = NotAuthorized(i)
            /\ body' = <<>>
            /\ pc'["r1"].at = "idle"
            /\ student_answers' = student_answers
            /\ attempts' = attempts]_vars

\* another student's submission was refused while the attempt was open and
\* unsubmitted
C15_Witness ==
    \E i \in 1..Len(attempts) :
       /\ last = NotAuthorized(i)
       /\ now <= attempts[i].end_time
       /\ AttemptAnswers(i) = {}
       /\ attempts[i].score = 0

\* the questions a submitted list names
Named(items) == {items[k][1] : k \in 1..Len(items)}

\* the text of the correct option of question x
CorrectText(x) ==
    answers[CHOOSE a \in QuestionAnswers(x) : answers[a].is_correct].text

\* C16: the quiz_questions list of a successful submit_attempt has exactly
\* one item for every question of the attempt's quiz and no other item; the
\* item of a question the list does not name has selected_option_text None,
\* is_correct false and the text of the question's correct option; and the
\* StudentAnswer rows of the attempt are those of the named questions.
C16_FeedbackCoversEveryQuestion ==
    [][(pc["r1"].at = "submit_create" /\ last'.status = 200)
       => \A items \in Submissions :
            SubmitCreate("r1", items)
            => LET i == pc["r1"].attempt
                   Q == QuizQuestions(attempts[i].quiz)
               IN /\ \A x \in Q :
                       Cardinality({k \in 1..Len(body') :
                                      body'[k].question_id = x}) = 1
                  /\ \A k \in 1..Len(body') :
                       /\ body'[k].question_id \in Q
                       /\ body'[k].question_id \notin Named(items)
                          => /\ body'[k].selected_option_text = "None"
                             /\ body'[k].is_correct = FALSE
                             /\ "correct_option_text" \in DOMAIN body'[k]
                             /\ body'[k].correct_option_text
                                  = CorrectText(body'[k].question_id)
                  /\ {r.question : r \in AttemptAnswersNext(i)}
                       = Named(items)]_vars

\* a submission that answered one of the two questions succeeded
C16_Witness ==
    /\ last.op = "submit" /\ last.status = 200
    /\ Len(body) = 2
    /\ \E k \in 1..2 :
          /\ body[k].selected_option_text = "None"
          /\ body[k].correct_option_text \in Texts
    /\ Cardinality(AttemptAnswers(last.attempt)) = 1

\* C17: in the quiz_questions list of a successful submit_attempt an item
\* has a correct_option_text, the text of the question's correct option,
\* exactly when its question was answered with an incorrect option or not
\* answered; the item of a correctly answered question has is_correct true
\* and no correct_option_text field.
C17_CorrectTextOnlyWhenWrong ==
    [][(pc["r1"].at = "submit_create" /\ last'.status = 200)
       => \A items \in Submissions :
            SubmitCreate("r1", items)
            => \A k \in 1..Len(body') :
                 LET wrong == \/ k > Len(items)
                              \/ ~answers[items[k][2]].is_correct
                 IN /\ ("correct_option_text" \in DOMAIN body'[k]) <=> wrong
                    /\ body'[k].is_correct = ~wrong
                    /\ wrong => body'[k].correct_option_text
                                  = CorrectText(body'[k].question_id)]_vars

\* a submission with one correct and one incorrect answer succeeded
C17_Witness ==
    /\ last.op = "submit" /\ last.status = 200
    /\ \E k \in 1..Len(body) :
          body[k].is_correct /\ "correct_option_text" \notin DOMAIN body[k]
    /\ \E k \in 1..Len(body) :
          /\ ~body[k].is_correct
          /\ body[k].selected_option_text # "None"
          /\ "correct_option_text" \in DOMAIN body[k]

AlreadySet ==
    Response("add_questions", 0, 400,
             "Questions have already been set for this quiz.", 0)

BatchRejected ==
    Response("add_questions", 0, 400,
             "Exactly one answer must be marked as correct.", 0)

BadPatch(x, patch) ==
    \/ \E k \in 1..Len(patch.answers) :
          patch.answers[k].id \notin QuestionAnswers(x)
    \/ Cardinality({a \in QuestionAnswers(x) :
                      PatchedAnswer(patch.answers, a).is_correct}) # 1

\* C20: in no state can update_question accept a patch that names an
\* answer of another question or that would leave the question with a
\* number of correct answers other than 1; and an update_question that is
\* not answered 200 leaves the question texts and every answer's text and
\* is_correct as stored, also when the patch carries a new question text.
C20_UpdateChecksMergedSet ==
    /\ [](\A q \in QuizIds :
            \A x \in QuizQuestions(q) :
               \A patch \in AuthoringPatches(x) :
                  BadPatch(x, patch)
                  => /\ ~ENABLED (UpdateQuestion("l1", q, x, patch)
                                  /\ last'.status # 400)
                     /\ ~ENABLED (UpdateQuestion("l1", q, x, patch)
                                  /\ <<questions', answers'>>
                                       # <<questions, answers>>))
    /\ [][(last'.op = "update_question" /\ last'.status # 200)
          => (questions' = questions /\ answers' = answers)]_vars

\* a patch with a new question text and a second correct answer was refused
\* and the question kept its text
C20_Witness ==
    /\ last.op = "update_question" /\ last.status = 400
    /\ last.detail = "Exactly one answer must be marked as correct after update."
    /\ QuizQuestions(1) # {}
    /\ \A x \in DOMAIN questions : questions[x].text = "t0"

\* C21: a caller that is not the instructor of the quiz's course -- no
\* lecturer profile, or a lecturer of another course -- is answered 403 by
\* quiz creation and no Quiz row is created.
C21_OnlyInstructorCreates ==
    [][\A u \in Callers \ {CourseInstructor}, data \in QuizData :
          CreateQuiz(u, data) => last'.status = 403 /\ quizzes' = quizzes]_vars

\* C22: every stored quiz starts before it ends, after any sequence of
\* quiz creations and partial updates.
C22_StartBeforeEnd ==
    \A q \in DOMAIN quizzes : quizzes[q].start < quizzes[q].end

\* a patch of one bound alone went through on quiz 1, and a quiz was created
C22_Witness ==
    /\ last.op = "update_quiz" /\ last.status = 200
    /\ quizzes[1].start = 2 /\ quizzes[1].end = 3
    /\ 3 \in DOMAIN quizzes

\* C23: the instructor's roster of a quiz that has attempts lists every
\* attempt with its student, score and attempt start and submitted = true
\* exactly for the attempts that have StudentAnswer rows, and the result
\* view answers 200 for an attempt that has rows and 404 for one without.
C23_RosterReportsSubmitted ==
    [][/\ \A q \in QuizIds :
             Roster("l1", q) /\ QuizAttempts(q) # {} =>
               /\ last'.status = 200
               /\ Len(body') = Cardinality(QuizAttempts(q))
               /\ \A k \in 1..Len(body') :
                     LET i == QueryOrder(QuizAttempts(q))[k]
                     IN /\ body'[k].student = attempts[i].student
                        /\ body'[k].score = attempts[i].score
                        /\ body'[k].attempt_time = attempts[i].attempt_time
                        /\ body'[k].submitted = (AttemptAnswers(i) # {})
       /\ \A q \in QuizIds, i \in 1..Len(attempts) :
             StudentResult("l1", q, attempts[i].student)
               /\ attempts[i].quiz = q =>
               last'.status = IF AttemptAnswers(i) # {} THEN 200 ELSE 404]_vars

\* C24: a successful update_question that changes which answer of a
\* question is correct leaves every StudentAnswer row, with its is_correct,
\* and every attempt, with its score, as they were.
C24_GradesAreSnapshots ==
    [][last'.op = "update_question" /\ last'.status = 200
         /\ (\E a \in DOMAIN answers :
                answers'[a].is_correct # answers[a].is_correct)
         => student_answers' = student_answers /\ attempts' = attempts]_vars

\* after such an update a recorded answer is graded unlike the option it
\* selected is marked now, on an attempt that scored
C24_Witness ==
    /\ last.op = "update_question" /\ last.status = 200
    /\ \E r \in student_answers :
          /\ r.is_correct # answers[r.selected_option].is_correct
          /\ attempts[r.attempt].score > 0

\* the password is that of the student with this matric number
StudentMatch(U, P) ==
    U \in DOMAIN accounts.students
    /\ accounts.users[accounts.students[U]].password = P

\* the password is that of the lecturer with this staff id
LecturerMatch(U, P) ==
    U \in DOMAIN accounts.lecturers
    /\ accounts.users[accounts.lecturers[U]].password = P

\* C25: authenticate returns a user only if the username is a student's
\* matric number or a lecturer's staff id and the password is that user's;
\* the student table is looked up first and the lecturer table second; an
\* unknown username, a wrong password and an empty or None username or
\* password give None.
C25_AuthenticateByProfileId ==
    auth # NoAuth =>
      LET U == auth.username
          P == auth.password
          Given == U \notin {"None", ""} /\ P \notin {"None", ""}
      IN /\ auth.user # "None" =>
              \/ StudentMatch(U, P) /\ auth.user = accounts.students[U]
              \/ LecturerMatch(U, P) /\ auth.user = accounts.lecturers[U]
         /\ Given /\ StudentMatch(U, P) => auth.user = accounts.students[U]
         /\ Given /\ ~StudentMatch(U, P) /\ LecturerMatch(U, P)
              => auth.user = accounts.lecturers[U]
         /\ ~Given \/ (~StudentMatch(U, P) /\ ~LecturerMatch(U, P))
              => auth.user = "None"

\* a name that is both a matric number and a staff id, with a password that
\* is both users', gave the student; and one with the lecturer's password
\* alone gave the lecturer
C25_Witness ==
    /\ auth.username = "m1" /\ "m1" \in DOMAIN accounts.lecturers
    /\ \/ /\ accounts.users["s1"].password = auth.password
          /\ accounts.users["l1"].password = auth.password
          /\ auth.user = "s1"
       \/ /\ accounts.users["s1"].password # auth.password
          /\ auth.user = "l1"

\* C26: authenticate never returns a user whose is_active flag is false.
C26_InactiveNeverAuthenticated ==
    auth.user # "None" => accounts.users[auth.user].is_active

\* the CourseEnrollment rows of student s
EnrollmentRows(s) == {k \in 1..Len(enrollments) : enrollments[k] = s}

\* C27: there is at most one CourseEnrollment row per student of the
\* course in every state, and an enroll request for a student who has a
\* row, at its validation or at its write, is answered 400 and adds no row,
\* also when two requests for the same student are in flight at once.
C27_DuplicateEnrollmentRejected ==
    [][/\ \A s \in Students : Cardinality(EnrollmentRows(s)) <= 1
       /\ \A r \in Reqs, u \in Students :
             FreeSlot(r) /\ EnrollValidate(r, u) /\ EnrollmentRows(u) # {}
             => last'.status = 400 /\ enrollments' = enrollments
       /\ \A r \in Reqs :
             EnrollCreate(r) /\ EnrollmentRows(pc[r].student) # {}
             => last'.status = 400 /\ enrollments' = enrollments]_vars

\* C28: every attempt ends no later than its quiz does, also after quiz
\* updates made while attempts exist.
C28_AttemptEndsWithinQuiz ==
    \A i \in 1..Len(attempts) :
       attempts[i].end_time <= quizzes[attempts[i].quiz].end

\* C29: a quiz has no Question row or exactly number_of_questions of them,
\* under any sequence of add_questions and quiz updates.
C29_QuestionCountMatches ==
    \A q \in DOMAIN quizzes :
       Cardinality(QuizQuestions(q)) \in {0, quizzes[q].number_of_questions}

\* C30: the persisted score of every attempt is the number of its
\* StudentAnswer rows that are marked correct, and so is at most the number
\* of questions of its quiz, under any interleaving of start_attempt and
\* submit_attempt requests.
C30_ScoreMatchesRows ==
    \A i \in 1..Len(attempts) :
       /\ attempts[i].score =
            Cardinality({r \in AttemptAnswers(i) : r.is_correct})
       /\ attempts[i].score <= Cardinality(QuizQuestions(attempts[i].quiz))
====
